---- MODULE Spec2Model ----
(***************************************************************************)
(* A model of gerrychain/partition/partition.py: Assignment (the map from  *)
(* part to node set), Partition (graph, assignment, parent link, flows,    *)
(* edge flows, updater registry and cache) and the operations that build   *)
(* and query them.  Assignment objects live in a heap of references, so    *)
(* that sharing between a parent and its children is a fact of the model.  *)
(***************************************************************************)
EXTENDS Integers, Sequences, FiniteSets, TLC

VARIABLES
    heap,        \* reference -> Assignment.parts (a dict part -> frozenset of nodes)
    partitions,  \* sequence of the Partition objects the caller holds
    calls,       \* calls[i][name]: how often updater `name` was invoked for partition i
    mapping,     \* mapping[i]: the node -> part mapping partition i was asked to have
    result,      \* outcome of the last operation the caller performed
    held,        \* references of the Assignment objects the caller made and keeps
    seen,        \* seen[i][name]: the names in partition i's cache when `name` was invoked
    class_updaters  \* the class attribute default_updaters of the class the caller uses

vars == <<heap, partitions, calls, mapping, result, held, seen, class_updaters>>

(***************************************************************************)
(* Bounds of the model.                                                    *)
(***************************************************************************)
MaxPartitions == 3      \* Partition objects held at the same time

(***************************************************************************)
(* The graph of the scenario: the path 1 - 2 - 3 - 4.  A delta may also    *)
(* name node 0, which is not in the graph.                                 *)
(***************************************************************************)
Nodes == {1, 2, 3, 4}
Edges == {<<1, 2>>, <<2, 3>>, <<3, 4>>}
PartIds == {"A", "B", "C"}
NodeOrder == <<0, 1, 2, 3, 4>>
neighbors(n) == {m \in Nodes : <<n, m>> \in Edges \/ <<m, n>> \in Edges}
sorted_edge(n, m) == IF n < m THEN <<n, m>> ELSE <<m, n>>

\* The graphs a Partition is built over: "G" is the path above, "E" has no node.
\* graph.node_attribute(name) is the dict node -> value of that attribute; the
\* nodes of "G" carry the attribute "district".
Graphs == {"G", "E"}
graph_nodes(graph) == IF graph = "G" THEN Nodes ELSE {}
node_attribute(graph, name) == [n \in graph_nodes(graph) |-> IF n <= 2 THEN "A" ELSE "B"]

(***************************************************************************)
(* Python values.                                                          *)
(***************************************************************************)
None == {}
Some(x) == {x}
The(s) == CHOOSE x \in s : TRUE
NoErr == "ok"
KeyError == "KeyError"
TypeError == "TypeError"
ValueError == "ValueError"
RecursionError == "RecursionError"
Range(f) == {f[x] : x \in DOMAIN f}
SeqRange(s) == {s[i] : i \in 1..Len(s)}
AppendNew(s, x) == IF x \in SeqRange(s) THEN s ELSE Append(s, x)

\* The values a caller passes as `assignment`, tagged with their Python type.
PyDict(m) == [type |-> "dict", value |-> m]
PyStr(name) == [type |-> "str", value |-> name]
PyAssignment(ref) == [type |-> "Assignment", value |-> ref]
PyList == [type |-> "list", value |-> <<>>]
PyNone == [type |-> "NoneType", value |-> <<>>]

(***************************************************************************)
(* level_sets: the dict target -> set of sources of a mapping.             *)
(***************************************************************************)
level_sets(m) == [t \in Range(m) |-> {s \in DOMAIN m : m[s] = t}]

(***************************************************************************)
(* Assignment.                                                             *)
(***************************************************************************)
from_dict(assignment) == level_sets(assignment)

\* Assignment.__getitem__: the part whose node set holds the node, else KeyError.
Assignment_getitem(parts, node) ==
    IF \E part \in DOMAIN parts : node \in parts[part]
    THEN CHOOSE part \in DOMAIN parts : node \in parts[part]
    ELSE KeyError

\* Assignment.items: the (node, part) pairs.
Assignment_items(parts) ==
    UNION {{<<node, part>> : node \in parts[part]} : part \in DOMAIN parts}

\* Assignment.copy: a new Assignment object whose dict is a copy of the old
\* one; the frozensets are shared, which is harmless as they are immutable.
Assignment_copy_alias(h, ref, fresh) == [heap |-> h, ref |-> ref]
Assignment_copy(h, ref, fresh) ==
    [heap |-> (fresh :> h[ref]) @@ h, ref |-> fresh]

(***************************************************************************)
(* flows_from_changes (gerrychain.updaters): for every node of the delta   *)
(* whose new part differs from its old part, the old part records the node *)
(* in its "out" set and the new part in its "in" set.  Parts without a     *)
(* change have no key.  keys is the order in which the keys are inserted   *)
(* when the delta is read in node order; looking up a node that is in no   *)
(* part fails.                                                             *)
(***************************************************************************)
changed_nodes(parts, flips) ==
    {n \in DOMAIN flips : Assignment_getitem(parts, n) # flips[n]}

RECURSIVE flow_keys(_, _, _, _)
flow_keys(parts, flips, i, acc) ==
    IF i > Len(NodeOrder) THEN acc
    ELSE LET n == NodeOrder[i] IN
         IF n \in changed_nodes(parts, flips)
         THEN flow_keys(parts, flips, i + 1,
                        AppendNew(AppendNew(acc, Assignment_getitem(parts, n)), flips[n]))
         ELSE flow_keys(parts, flips, i + 1, acc)

flows_from_changes(parts, flips) ==
    IF \E n \in DOMAIN flips : Assignment_getitem(parts, n) = KeyError
    THEN [err |-> KeyError, keys |-> <<>>, flows |-> <<>>]
    ELSE LET ch == changed_nodes(parts, flips)
             keys == flow_keys(parts, flips, 1, <<>>)
         IN [err |-> NoErr,
             keys |-> keys,
             flows |-> [part \in SeqRange(keys) |->
                          [in |-> {n \in ch : flips[n] = part},
                           out |-> {n \in ch : Assignment_getitem(parts, n) = part}]]]

\* Line 40 of Assignment.update: the node set that replaces a part's set.
replace_set_keep_out(old, flow) == old \cup flow.in
replace_set(old, flow) == (old \ flow.out) \cup flow.in

\* Line 40, the read of self.parts[part]: parts is a plain dict, so a part it
\* does not have raises KeyError.
part_lookup_default(parts, part) ==
    IF part \in DOMAIN parts THEN [err |-> NoErr, set |-> parts[part]]
    ELSE [err |-> NoErr, set |-> {}]
part_lookup(parts, part) ==
    IF part \in DOMAIN parts THEN [err |-> NoErr, set |-> parts[part]]
    ELSE [err |-> KeyError, set |-> {}]

\* The for loop of Assignment.update: self.parts[part] raises KeyError for a
\* part the dict does not have; the parts before it are already replaced.
RECURSIVE apply_flows(_, _, _, _)
apply_flows(parts, keys, flows, i) ==
    IF i > Len(keys) THEN [err |-> NoErr, parts |-> parts]
    ELSE IF part_lookup(parts, keys[i]).err # NoErr
    THEN [err |-> part_lookup(parts, keys[i]).err, parts |-> parts]
    ELSE apply_flows((keys[i] :> replace_set(part_lookup(parts, keys[i]).set,
                                             flows[keys[i]])) @@ parts,
                     keys, flows, i + 1)

\* Assignment.update on the object at ref: line 36, then the loop.
update_with(h, ref, f) ==
    IF f.err # NoErr THEN [err |-> f.err, heap |-> h]
    ELSE [err |-> apply_flows(h[ref], f.keys, f.flows, 1).err,
          heap |-> [h EXCEPT ![ref] = apply_flows(h[ref], f.keys, f.flows, 1).parts]]

Assignment_update(h, ref, flips) == update_with(h, ref, flows_from_changes(h[ref], flips))

\* Assignment.update_parts on the object at ref: every part of new_parts gets
\* the given node set, the other parts stay.
Assignment_update_parts(h, ref, new_parts) == [h EXCEPT ![ref] = new_parts @@ @]

(***************************************************************************)
(* compute_edge_flows (gerrychain.updaters): for every edge at a node that *)
(* changed part, whether the edge began or stopped crossing parts.  An     *)
(* edge that began to cross is in the "in" set of its endpoints' new       *)
(* parts, one that stopped in the "out" set of their old parts.            *)
(***************************************************************************)
touched_edges(old, new, flips) ==
    UNION {{sorted_edge(n, m) : m \in neighbors(n)} :
           n \in {x \in DOMAIN flips :
                     Assignment_getitem(old, x) # Assignment_getitem(new, x)}}

crosses(parts, edge) ==
    Assignment_getitem(parts, edge[1]) # Assignment_getitem(parts, edge[2])

\* Looking up the end of a touched edge fails when the end is in no part.
edge_flows_raise(old, new, flips) ==
    \E e \in touched_edges(old, new, flips) :
        KeyError \in {Assignment_getitem(old, e[1]), Assignment_getitem(old, e[2]),
                      Assignment_getitem(new, e[1]), Assignment_getitem(new, e[2])}

compute_edge_flows(old, new, flips) ==
    LET began == {e \in touched_edges(old, new, flips) : crosses(new, e) /\ ~crosses(old, e)}
        ended == {e \in touched_edges(old, new, flips) : ~crosses(new, e) /\ crosses(old, e)}
        into(part) == {e \in began : part \in {Assignment_getitem(new, e[1]),
                                                Assignment_getitem(new, e[2])}}
        outof(part) == {e \in ended : part \in {Assignment_getitem(old, e[1]),
                                                 Assignment_getitem(old, e[2])}}
        keys == {part \in DOMAIN old \cup DOMAIN new : into(part) \cup outof(part) # {}}
    IN [part \in keys |-> [in |-> into(part), out |-> outof(part)]]

(***************************************************************************)
(* The updater functions a caller registers.  "size" counts the nodes of   *)
(* each part; "total" reads self["size"] and adds the counts up;           *)
(* "nonempty" raises when a part has no node; "ping" and "pong" read each  *)
(* other.  A registry is the dict name -> function, in insertion order.    *)
(***************************************************************************)
Names == {"size", "total", "nonempty", "ping", "pong"}
Registries == {<<"total", "size">>, <<"size", "nonempty">>, <<"ping", "pong">>, <<"total">>}
default_updaters == <<>>

\* A registry as a dict: its keys in insertion order and the function behind
\* each name.  A function the caller supplies is identified by its name, the
\* function a class-level registry gives a name by "default " and the name; a
\* subclass of Partition sets default_updaters to a registry of its own.
Registry(names) == [keys |-> names, fn |-> [n \in SeqRange(names) |-> n]]
subclass_default_updaters == [keys |-> <<"size">>, fn |-> ("size" :> "default size")]

\* dict.update: names that are new are appended, names already there keep
\* their place and get the other dict's function.
dict_update(d, other) ==
    [keys |-> d.keys \o SelectSeq(other.keys, LAMBDA n : n \notin SeqRange(d.keys)),
     fn |-> other.fn @@ d.fn]

\* Lines 88-89: the class-level registry after self.updaters was made from a
\* copy of it and updated.
default_after_update_shared(d, updated) == updated
default_after_update(d, updated) == d

updater_reads(name) ==
    CASE name = "total" -> <<"size">>
      [] name = "ping" -> <<"pong">>
      [] name = "pong" -> <<"ping">>
      [] OTHER -> <<>>

updater_raises(name, parts) ==
    name = "nonempty" /\ \E part \in DOMAIN parts : parts[part] = {}

RECURSIVE sum_over(_, _)
sum_over(f, keys) ==
    IF keys = {} THEN 0
    ELSE LET k == CHOOSE x \in keys : TRUE IN f[k] + sum_over(f, keys \ {k})

updater_value(name, parts, cache) ==
    CASE name = "size" -> [part \in DOMAIN parts |-> Cardinality(parts[part])]
      [] name = "total" -> sum_over(cache["size"], DOMAIN cache["size"])
      [] name = "nonempty" -> TRUE
      [] OTHER -> 0

(***************************************************************************)
(* Evaluation of updaters for one Partition.  st is the state of the       *)
(* evaluation: the instance's _cache, the number of invocations of each    *)
(* updater function, the keys the _cache had when each was invoked, the    *)
(* exception raised (if any) and the value returned.                       *)
(* stack holds the updaters whose call has not returned: calling one of    *)
(* them again never returns and ends in RecursionError.                    *)
(***************************************************************************)
NewEval == [cache |-> <<>>, calls |-> [n \in Names \cup {"missing"} |-> 0],
            seen |-> [n \in Names \cup {"missing"} |-> {}],
            err |-> NoErr, ret |-> None]

\* Line 152: `key not in self._cache`, the test of Partition.__getitem__.
cache_lacks_always(cache, key) == TRUE
cache_lacks(cache, key) == key \notin DOMAIN cache

\* Lines 125 and 153: `self.updaters[key]` raises KeyError for a name that is
\* not registered.
registry_has_any(updaters, key) == TRUE
registry_has(updaters, key) == key \in SeqRange(updaters)

\* Line 124: `key not in self._cache`, the test of Partition._update.
update_needs_always(cache, key) == TRUE
update_needs_never(cache, key) == FALSE
update_needs(cache, key) == key \notin DOMAIN cache

RECURSIVE Partition_getitem(_, _, _, _, _)
RECURSIVE call_updater(_, _, _, _, _)
RECURSIVE read_all(_, _, _, _, _, _)

\* The lookups self[other] an updater function makes, in order.
read_all(updaters, parts, names, i, st, stack) ==
    IF i > Len(names) \/ st.err # NoErr THEN st
    ELSE read_all(updaters, parts, names, i + 1,
                  Partition_getitem(updaters, parts, names[i], st, stack), stack)

\* self.updaters[key](self)
call_updater(updaters, parts, key, st, stack) ==
    IF ~registry_has(updaters, key) THEN [st EXCEPT !.err = KeyError]
    ELSE IF key \in stack THEN [st EXCEPT !.err = RecursionError]
    ELSE LET st1 == [st EXCEPT !.calls[key] = @ + 1, !.seen[key] = DOMAIN st.cache]
             st2 == read_all(updaters, parts, updater_reads(key), 1, st1,
                             stack \cup {key})
         IN IF st2.err # NoErr THEN st2
            ELSE IF updater_raises(key, parts) THEN [st2 EXCEPT !.err = ValueError]
            ELSE [st2 EXCEPT !.ret = Some(updater_value(key, parts, st2.cache))]

\* Partition.__getitem__
Partition_getitem(updaters, parts, key, st, stack) ==
    IF cache_lacks(st.cache, key)
    THEN LET st1 == call_updater(updaters, parts, key, st, stack)
         IN IF st1.err # NoErr THEN st1
            ELSE [st1 EXCEPT !.cache = (key :> The(st1.ret)) @@ @]
    ELSE [st EXCEPT !.ret = Some(st.cache[key])]

\* The for loop of Partition._update.
RECURSIVE update_loop(_, _, _, _)
update_loop(updaters, parts, i, st) ==
    IF i > Len(updaters) \/ st.err # NoErr THEN st
    ELSE IF update_needs(st.cache, updaters[i])
         THEN LET st1 == call_updater(updaters, parts, updaters[i], st, {})
              IN update_loop(updaters, parts, i + 1,
                             IF st1.err # NoErr THEN st1
                             ELSE [st1 EXCEPT !.cache = (updaters[i] :> The(st1.ret)) @@ @])
         ELSE update_loop(updaters, parts, i + 1, st)

\* Partition._update
Partition_update(updaters, parts) ==
    update_loop(updaters, parts, 1, NewEval)

(***************************************************************************)
(* Partition.  A Partition object is a record; parent is the index of the  *)
(* parent in `partitions` (0 for None) and assignment a heap reference.    *)
(***************************************************************************)
fresh_ref(h) == CHOOSE r \in 1..(Cardinality(DOMAIN h) + 1) : r \notin DOMAIN h

\* Partition.__len__
Partition_len(self) == Cardinality(self.parts)

\* get_assignment: a node attribute key or a dict goes through
\* Assignment.from_dict to a new object, an Assignment is returned as it is,
\* anything else raises TypeError.
get_assignment(h, assignment, graph) ==
    IF assignment.type = "str"
    THEN [err |-> NoErr,
          heap |-> (fresh_ref(h) :> from_dict(node_attribute(graph, assignment.value))) @@ h,
          ref |-> fresh_ref(h)]
    ELSE IF assignment.type = "dict"
    THEN [err |-> NoErr,
          heap |-> (fresh_ref(h) :> from_dict(assignment.value)) @@ h,
          ref |-> fresh_ref(h)]
    ELSE IF assignment.type = "Assignment"
    THEN [err |-> NoErr, heap |-> h, ref |-> assignment.value]
    ELSE [err |-> TypeError, heap |-> h, ref |-> 0]

\* Partition._first_time, with line 79 (parts becomes the tuple of the keys).
first_time_registry(a, graph, updaters) ==
    IF a.err # NoErr
    THEN [err |-> a.err, heap |-> a.heap, self |-> <<>>, class |-> class_updaters]
    ELSE [err |-> NoErr,
          heap |-> a.heap,
          class |-> default_after_update(class_updaters, updaters),
          self |-> [graph |-> graph,
                    assignment |-> a.ref,
                    updaters |-> updaters.keys,
                    updater_fns |-> updaters.fn,
                    parent |-> 0,
                    flips |-> None,
                    flows |-> None,
                    edge_flows |-> None,
                    parts |-> DOMAIN level_sets([x \in Assignment_items(a.heap[a.ref]) |-> x[2]]),
                    cache |-> <<>>]]

\* Lines 86-89: updaters defaults to an empty dict and extends a copy of the
\* class-level registry.
first_time_with(a, graph, updaters) ==
    first_time_registry(a, graph,
                        dict_update(class_updaters,
                                    Registry(IF updaters = None THEN <<>> ELSE The(updaters))))

Partition_first_time(h, graph, assignment, updaters) ==
    first_time_with(get_assignment(h, assignment, graph), graph, updaters)

\* Line 109: the flows stored on the child are derived from the parent's assignment.
stored_flows_from_child(h, parentref, childref, flips) == flows_from_changes(h[childref], flips)
stored_flows(h, parentref, childref, flips) == flows_from_changes(h[parentref], flips)

\* Line 99: `self.parent = parent`.
parent_link_first(parent) == 1
parent_link(parent) == parent

\* Partition._from_parent: lines 105 to 110, once the assignment is updated.
\* compute_edge_flows reads self.parent.assignment, self.assignment and self.flips.
from_parent_rest(h, parent, flips, ref, f) ==
    IF f.err # NoErr THEN [err |-> f.err, heap |-> h, self |-> <<>>, class |-> class_updaters]
    ELSE IF edge_flows_raise(h[partitions[parent_link(parent)].assignment], h[ref], flips)
    THEN [err |-> KeyError, heap |-> h, self |-> <<>>, class |-> class_updaters]
    ELSE [err |-> NoErr,
          heap |-> h,
          class |-> class_updaters,
          self |-> [graph |-> partitions[parent].graph,
                    assignment |-> ref,
                    updaters |-> partitions[parent].updaters,
                    updater_fns |-> partitions[parent].updater_fns,
                    parent |-> parent_link(parent),
                    flips |-> Some(flips),
                    flows |-> Some(f.flows),
                    edge_flows |-> Some(compute_edge_flows(
                                           h[partitions[parent_link(parent)].assignment],
                                           h[ref], flips)),
                    parts |-> partitions[parent].parts,
                    cache |-> <<>>]]

\* Partition._from_parent: line 103 on the copy that line 102 made.
from_parent_update(parent, flips, ref, u) ==
    IF u.err # NoErr
    THEN [err |-> u.err, heap |-> u.heap, self |-> <<>>, class |-> class_updaters]
    ELSE from_parent_rest(u.heap, parent, flips, ref,
                          stored_flows(u.heap, partitions[parent].assignment, ref, flips))

from_parent_copy(parent, flips, c) ==
    from_parent_update(parent, flips, c.ref, Assignment_update(c.heap, c.ref, flips))

\* Partition._from_parent
Partition_from_parent(h, parent, flips) ==
    from_parent_copy(parent, flips,
                     Assignment_copy(h, partitions[parent].assignment, fresh_ref(h)))

\* Line 73: `if parent:`; a Partition is true when its __len__ is not 0.
is_truthy(parent) == parent # 0 /\ Partition_len(partitions[parent]) > 0

\* Lines 75 and 78: self._update() on the object built.
init_update(o, st) ==
    [err |-> st.err, heap |-> o.heap, self |-> [o.self EXCEPT !.cache = st.cache],
     calls |-> st.calls, seen |-> st.seen, class |-> o.class]

\* Lines 74-75: _update runs after _from_parent, so the updaters read the
\* assignment that line 103 has updated.
updated_assignment_of_parent(o) ==
    IF o.self.parent = 0 THEN o.self.assignment ELSE partitions[o.self.parent].assignment
updated_assignment(o) == o.self.assignment

init_built(o) ==
    IF o.err # NoErr
    THEN [err |-> o.err, heap |-> o.heap, self |-> <<>>, calls |-> <<>>, seen |-> <<>>,
          class |-> o.class]
    ELSE init_update(o, Partition_update(o.self.updaters, o.heap[updated_assignment(o)]))

\* Partition.__init__: the object built, the heap, the calls made and the error.
Partition_init(h, graph, assignment, updaters, parent, flips) ==
    init_built(IF is_truthy(parent)
               THEN Partition_from_parent(h, parent, The(flips))
               ELSE Partition_first_time(h, graph, assignment, updaters))

\* Partition.merge
merge(h, self, flips) == Partition_init(h, None, PyNone, None, self, Some(flips))

\* Partition.crosses_parts
crosses_parts_one_end(h, self, edge) ==
    IF Assignment_getitem(h[partitions[self].assignment], edge[1]) = KeyError
    THEN [err |-> KeyError, ret |-> None]
    ELSE [err |-> NoErr, ret |-> Some(FALSE)]
crosses_parts(h, self, edge) ==
    LET a == Assignment_getitem(h[partitions[self].assignment], edge[1])
        b == Assignment_getitem(h[partitions[self].assignment], edge[2])
    IN IF a = KeyError \/ b = KeyError THEN [err |-> KeyError, ret |-> None]
       ELSE [err |-> NoErr, ret |-> Some(a # b)]

\* Objects neither a Partition nor the caller refers to are reclaimed.
reclaim(h, ps) == [r \in {ps[i].assignment : i \in DOMAIN ps} \cup held |-> h[r]]

(***************************************************************************)
(* The operations a caller performs.                                       *)
(***************************************************************************)
\* Root mappings: nodes 1..k in part A, the others in part B.
RootMappings == {[n \in Nodes |-> IF n <= k THEN "A" ELSE "B"] : k \in {2, 4}}
\* Deltas: no node, one node (node 0 is not in the graph) or the two middle nodes,
\* each sent to any part identifier ("C" is used by no root).
FlipSets == {{}, {0}, {1}, {2}, {3}, {4}, {2, 3}}
Deltas == UNION {[D -> PartIds] : D \in FlipSets}
LookupKeys == Names \cup {"missing"}
QueryEdges == Edges \cup {<<0, 1>>}

InitObjects ==
    /\ heap = <<>>
    /\ partitions = <<>>
    /\ calls = <<>>
    /\ mapping = <<>>
    /\ result = [op |-> "none", status |-> NoErr]
    /\ held = {}
    /\ seen = <<>>

\* The caller uses the class Partition itself.
Init ==
    /\ InitObjects
    /\ class_updaters = Registry(default_updaters)

\* What the caller holds after a constructor call that gave outcome o.
Constructed(o, op, m) ==
    IF o.err = NoErr
    THEN /\ heap' = o.heap
         /\ partitions' = Append(partitions, o.self)
         /\ calls' = Append(calls, o.calls)
         /\ mapping' = Append(mapping, m)
         /\ seen' = Append(seen, o.seen)
         /\ result' = [op |-> op, status |-> NoErr]
         /\ class_updaters' = o.class
         /\ UNCHANGED held
    ELSE /\ heap' = reclaim(o.heap, partitions)
         /\ result' = [op |-> op, status |-> o.err]
         /\ class_updaters' = o.class
         /\ UNCHANGED <<partitions, calls, mapping, held, seen>>

\* Partition(graph, assignment, updaters)
NewRoot(assignment, updaters) ==
    /\ Len(partitions) = 0
    /\ Constructed(Partition_init(heap, "G", PyDict(assignment), Some(updaters), 0, None),
                   "root", assignment)

\* partitions[self].merge(flips)
Merge(self, flips) ==
    /\ Len(partitions) < MaxPartitions
    /\ Constructed(merge(heap, self, flips), "merge",
                   [n \in DOMAIN mapping[self] |->
                       IF n \in DOMAIN flips THEN flips[n] ELSE mapping[self][n]])

Looked(self, st) ==
    /\ partitions' = [partitions EXCEPT ![self].cache = st.cache]
    /\ calls' = [calls EXCEPT ![self] = st.calls]
    /\ seen' = [seen EXCEPT ![self] = st.seen]
    /\ result' = [op |-> "lookup", status |-> st.err]
    /\ UNCHANGED <<heap, mapping, held, class_updaters>>

\* partitions[self][key]
lookup(self, key) ==
    Partition_getitem(partitions[self].updaters, heap[partitions[self].assignment], key,
                      [NewEval EXCEPT !.cache = partitions[self].cache,
                                      !.calls = calls[self],
                                      !.seen = seen[self]], {})

Lookup(self, key) == Looked(self, lookup(self, key))

\* partitions[self].crosses_parts(edge)
CrossesParts(self, edge) ==
    /\ result' = [op |-> "crosses_parts", status |-> crosses_parts(heap, self, edge).err]
    /\ UNCHANGED <<heap, partitions, calls, mapping, held, seen, class_updaters>>

Next ==
    \/ \E assignment \in RootMappings, updaters \in Registries : NewRoot(assignment, updaters)
    \/ \E self \in DOMAIN partitions, flips \in Deltas : Merge(self, flips)
    \/ \E self \in DOMAIN partitions, key \in LookupKeys : Lookup(self, key)
    \/ \E self \in DOMAIN partitions, edge \in QueryEdges : CrossesParts(self, edge)

Spec == Init /\ [][Next]_vars

(***************************************************************************)
(* Root construction from every kind of `assignment` a caller may pass:    *)
(* dicts that miss nodes of the graph, a node attribute key, a list, None, *)
(* and the graph without nodes.                                            *)
(***************************************************************************)
PartialMappings == {(1 :> "A") @@ (2 :> "A"), (1 :> "A") @@ (2 :> "B")}
RootInputs ==
    {[graph |-> "G", assignment |-> PyDict(m)] : m \in PartialMappings}
    \cup {[graph |-> g, assignment |-> PyDict(<<>>)] : g \in Graphs}
    \cup {[graph |-> "G", assignment |-> a] : a \in {PyStr("district"), PyList, PyNone}}

\* The node -> part mapping the caller asked for.
asked_mapping(input) ==
    IF input.assignment.type = "str"
    THEN node_attribute(input.graph, input.assignment.value)
    ELSE input.assignment.value

\* Partition(input.graph, input.assignment, updaters)
NewRootOf(input, updaters) ==
    /\ Len(partitions) = 0
    /\ Constructed(Partition_init(heap, input.graph, input.assignment, Some(updaters), 0, None),
                   input.assignment.type, asked_mapping(input))

NextRoots ==
    \/ Next
    \/ \E input \in RootInputs, updaters \in Registries : NewRootOf(input, updaters)

SpecRoots == Init /\ [][NextRoots]_vars

(***************************************************************************)
(* The same operations on a subclass of Partition whose default_updaters   *)
(* registers a size updater.                                               *)
(***************************************************************************)
InitSubclass ==
    /\ InitObjects
    /\ class_updaters = subclass_default_updaters

SpecSubclass == InitSubclass /\ [][Next]_vars

(***************************************************************************)
(* A caller that makes an Assignment object, builds roots from it and      *)
(* keeps using the object: get_assignment returns the object it is given.  *)
(***************************************************************************)
CallerDeltas == {(2 :> "B"), (2 :> "C")}
CallerParts == {("A" :> {1})}

\* a = Assignment.from_dict(mapping)
NewAssignment(m) ==
    /\ held = {}
    /\ partitions = <<>>
    /\ heap' = (fresh_ref(heap) :> from_dict(m)) @@ heap
    /\ held' = {fresh_ref(heap)}
    /\ result' = [op |-> "from_dict", status |-> NoErr]
    /\ UNCHANGED <<partitions, calls, mapping, seen, class_updaters>>

\* Partition("G", a, updaters) for the Assignment object a the caller holds,
\* as the first or the second root.
NewRootFrom(ref, updaters) ==
    /\ Len(partitions) < MaxPartitions - 1
    /\ \A i \in DOMAIN partitions : partitions[i].parent = 0
    /\ Constructed(Partition_init(heap, "G", PyAssignment(ref), Some(updaters), 0, None),
                   "Assignment",
                   [n \in {x[1] : x \in Assignment_items(heap[ref])} |->
                       Assignment_getitem(heap[ref], n)])

\* a.update(flips): the parts replaced before a KeyError stay replaced.
CallerUpdate(ref, flips) ==
    /\ heap' = Assignment_update(heap, ref, flips).heap
    /\ result' = [op |-> "update", status |-> Assignment_update(heap, ref, flips).err]
    /\ UNCHANGED <<partitions, calls, mapping, held, seen, class_updaters>>

\* a.update_parts(new_parts)
CallerUpdateParts(ref, new_parts) ==
    /\ heap' = Assignment_update_parts(heap, ref, new_parts)
    /\ result' = [op |-> "update_parts", status |-> NoErr]
    /\ UNCHANGED <<partitions, calls, mapping, held, seen, class_updaters>>

NextShared ==
    \/ \E m \in RootMappings : NewAssignment(m)
    \/ \E ref \in held, updaters \in Registries : NewRootFrom(ref, updaters)
    \/ \E ref \in held, flips \in CallerDeltas : CallerUpdate(ref, flips)
    \/ \E ref \in held, new_parts \in CallerParts : CallerUpdateParts(ref, new_parts)
    \/ \E self \in DOMAIN partitions, flips \in Deltas : Merge(self, flips)
    \/ \E self \in DOMAIN partitions, key \in LookupKeys : Lookup(self, key)
    \/ \E self \in DOMAIN partitions, edge \in QueryEdges : CrossesParts(self, edge)

SpecShared == Init /\ [][NextShared]_vars

(***************************************************************************)
(* Properties.                                                             *)
(***************************************************************************)
PartsOf(i) == heap[partitions[i].assignment]
Children == {i \in DOMAIN partitions : partitions[i].parent # 0}
Registered(i) == SeqRange(partitions[i].updaters)
Scenario == [n \in Nodes |-> IF n <= 2 THEN "A" ELSE "B"]
FlowIn(fl, part) == IF part \in DOMAIN fl THEN fl[part].in ELSE {}
FlowOut(fl, part) == IF part \in DOMAIN fl THEN fl[part].out ELSE {}
FlowNodes(fl) == UNION {fl[part].in \cup fl[part].out : part \in DOMAIN fl}

\* C1: in every Partition built as a root from a total mapping or by successful
\* merges, each node of the graph is in exactly one part's node set, and items()
\* yields exactly one pair per node and no pair for anything else.
C1_PartitionInvariant ==
    \A i \in DOMAIN partitions :
        /\ \A n \in Nodes :
            /\ Cardinality({part \in DOMAIN PartsOf(i) : n \in PartsOf(i)[part]}) = 1
            /\ Cardinality({x \in Assignment_items(PartsOf(i)) : x[1] = n}) = 1
        /\ {x[1] : x \in Assignment_items(PartsOf(i))} = Nodes

\* C1 witness: a Partition two merges away from its root, each merge moving a node.
C1_Witness ==
    \E i \in Children :
        /\ partitions[i].parent \in Children
        /\ The(partitions[i].flows) # <<>>
        /\ The(partitions[partitions[i].parent].flows) # <<>>

\* C2: the assignment of every Partition made by merge equals the Assignment
\* that from_dict builds from the full resulting node -> part mapping.
C2_IncrementalEqualsFromScratch ==
    \A i \in Children : PartsOf(i) = from_dict(mapping[i])

\* C3: the flows stored on a child hold each node whose part in the parent
\* differs from its part in the delta in exactly the old part's "out" set and
\* the new part's "in" set; no other node is in any set, and no key has two
\* empty sets.
C3_FlowCorrectness ==
    \A i \in Children :
        LET old == mapping[partitions[i].parent]
            D == The(partitions[i].flips)
            fl == The(partitions[i].flows)
            moved(n) == n \in DOMAIN D /\ old[n] # D[n]
        IN /\ DOMAIN fl \subseteq PartIds
           /\ FlowNodes(fl) \subseteq Nodes
           /\ \A n \in Nodes, part \in PartIds :
                /\ n \in FlowIn(fl, part) <=> (moved(n) /\ D[n] = part)
                /\ n \in FlowOut(fl, part) <=> (moved(n) /\ old[n] = part)
           /\ \A part \in DOMAIN fl : fl[part].in \cup fl[part].out # {}

\* C3 witness: a child whose delta moves one node and names another node that
\* is already in the part the delta gives it.
C3_Witness ==
    \E i \in Children :
        LET old == mapping[partitions[i].parent]
            D == The(partitions[i].flips)
        IN /\ \E n \in DOMAIN D : old[n] # D[n]
           /\ \E n \in DOMAIN D : old[n] = D[n]
           /\ Cardinality(DOMAIN The(partitions[i].flows)) = 2

\* C4: a merge leaves every existing Partition as it was: its part -> node set
\* mapping, its flows, its parent link and its cache.
View(i) == [parts |-> PartsOf(i), flows |-> partitions[i].flows,
            edge_flows |-> partitions[i].edge_flows,
            parent |-> partitions[i].parent, cache |-> partitions[i].cache]
C4_ParentImmutable ==
    [][result'.op = "merge" =>
         \A i \in DOMAIN partitions : i \in DOMAIN partitions' /\ View(i)' = View(i)]_vars

\* C4 witness: a root, a child and a grandchild with three different assignments.
C4_Witness ==
    \E i \in Children :
        /\ partitions[i].parent \in Children
        /\ PartsOf(i) # PartsOf(partitions[i].parent)
        /\ PartsOf(i) # PartsOf(partitions[partitions[i].parent].parent)
        /\ PartsOf(partitions[i].parent) # PartsOf(partitions[partitions[i].parent].parent)

\* C5: for every Partition and every registered updater name the updater
\* function has been invoked exactly once, whatever lookups were made since.
C5_ExactlyOnce ==
    \A i \in DOMAIN partitions : \A name \in Registered(i) : calls[i][name] = 1

\* C5 witness: a child whose first updater reads the second one's value during
\* construction, after a successful lookup.
C5_Witness ==
    /\ result = [op |-> "lookup", status |-> NoErr]
    /\ \E i \in Children : partitions[i].updaters = <<"total", "size">>

\* C6: the cache of a constructed Partition has an entry for each registered
\* updater name and no other, and no step changes the cache of a Partition.
C6_CacheStable ==
    /\ [](\A i \in DOMAIN partitions : DOMAIN partitions[i].cache = Registered(i))
    /\ [][\A i \in DOMAIN partitions : partitions'[i].cache = partitions[i].cache]_vars

\* C6 witness: a lookup was made on a parent that has a child and a non-empty cache.
C6_Witness ==
    /\ result = [op |-> "lookup", status |-> NoErr]
    /\ \E i \in Children : partitions[partitions[i].parent].cache # <<>>
    /\ Len(partitions) = MaxPartitions

\* C7: crosses_parts of an edge of the graph is true exactly when the edge's
\* ends are in different parts of the mapping the Partition was asked to have.
C7_CrossesParts ==
    \A i \in DOMAIN partitions : \A e \in Edges :
        crosses_parts(heap, i, e) =
            [err |-> NoErr, ret |-> Some(mapping[i][e[1]] # mapping[i][e[2]])]

\* C7 witness: the scenario {1:A, 2:A, 3:B, 4:B} with delta {2:B}; in the child
\* edge (1,2) crosses and (2,3) does not, in the parent it is the other way round.
C7_Witness ==
    /\ result = [op |-> "crosses_parts", status |-> NoErr]
    /\ \E i \in Children :
        /\ mapping[partitions[i].parent] = Scenario
        /\ The(partitions[i].flips) = (2 :> "B")
        /\ crosses_parts(heap, i, <<1, 2>>).ret = Some(TRUE)
        /\ crosses_parts(heap, i, <<2, 3>>).ret = Some(FALSE)
        /\ crosses_parts(heap, partitions[i].parent, <<1, 2>>).ret = Some(FALSE)
        /\ crosses_parts(heap, partitions[i].parent, <<2, 3>>).ret = Some(TRUE)

\* C8: every edge in the edge flows of a child has an end among the nodes of
\* the child's flows.
C8_EdgeFlowMinimal ==
    \A i \in Children :
        LET ef == The(partitions[i].edge_flows)
            moved == FlowNodes(The(partitions[i].flows))
        IN \A part \in DOMAIN ef : \A e \in ef[part].in \cup ef[part].out :
               e \in Edges /\ (e[1] \in moved \/ e[2] \in moved)

\* C8 witness: a child with an edge in its edge flows and a graph edge with no
\* moved end.
C8_Witness ==
    \E i \in Children :
        /\ The(partitions[i].edge_flows) # <<>>
        /\ \E e \in Edges : {e[1], e[2]} \cap FlowNodes(The(partitions[i].flows)) = {}

\* C9: a merge that fails gives the caller no Partition and leaves the heap,
\* the Partitions held, their caches and the calls made as they were.
C9_AllOrNothing ==
    [][(result'.op = "merge" /\ result'.status # NoErr) =>
         /\ partitions' = partitions
         /\ heap' = heap
         /\ calls' = calls
         /\ mapping' = mapping]_vars

\* C9 witness: a merge failed on a Partition that already has a child.
C9_Witness ==
    /\ result.op = "merge"
    /\ result.status \in {KeyError, ValueError}
    /\ Children # {}

\* C10: the lookup of a name that is not registered fails and leaves the cache
\* as it was; the lookup of a registered name returns the cached value.
C10_UnknownLookup ==
    \A i \in DOMAIN partitions : \A key \in LookupKeys :
        IF key \in Registered(i)
        THEN /\ lookup(i, key).err = NoErr
             /\ lookup(i, key).ret = Some(partitions[i].cache[key])
        ELSE /\ lookup(i, key).err = KeyError
             /\ lookup(i, key).cache = partitions[i].cache

\* C10 witness: a lookup has failed on a Partition with a non-empty cache.
C10_Witness ==
    /\ result = [op |-> "lookup", status |-> KeyError]
    /\ \E i \in DOMAIN partitions : partitions[i].cache # <<>>

\* C11: a root is built only from a well-formed input: an assignment that is
\* neither a dict, a node attribute key nor an Assignment fails with TypeError
\* and leaves no Partition, and every root that exists gives a part to every
\* node of its graph, a mapping that misses a node having been rejected.
C11_MalformedRejected ==
    /\ result.op = "list" => (result.status = TypeError /\ partitions = <<>>)
    /\ \A i \in DOMAIN partitions :
          partitions[i].parent = 0 =>
              {x[1] : x \in Assignment_items(PartsOf(i))} = graph_nodes(partitions[i].graph)

\* C12: a root constructed with assignment None is a Partition whose assignment
\* puts every node of the graph in district 0.
C12_NoneMeansDistrictZero ==
    result.op = "NoneType" =>
        /\ result.status = NoErr
        /\ Len(partitions) = 1
        /\ \A n \in graph_nodes(partitions[1].graph) : Assignment_getitem(PartsOf(1), n) = 0

\* C13: a Partition owns its Assignment: whatever the caller does after the
\* construction (merges, lookups, another root from the same Assignment
\* object, an update of that object), the node -> part pairs seen through a
\* Partition's assignment are those of the mapping it was constructed with.
C13_OwnsAssignment ==
    \A i \in DOMAIN partitions :
        Assignment_items(PartsOf(i)) = {<<n, mapping[i][n]>> : n \in DOMAIN mapping[i]}

\* C14: every Partition is a root without parent, flows and edge flows, or a
\* child whose parent was built before it (so the parent links end at a root)
\* and which has its parent's graph, flows and edge flows; and merge on every
\* Partition, one without parts included, builds a child: no merge ends in the
\* TypeError of the root path, and the merge of the empty delta returns a
\* Partition whose parent is the Partition merged from.
C14_RootChildDichotomy ==
    /\ \A i \in DOMAIN partitions :
          \/ /\ partitions[i].parent = 0
             /\ partitions[i].flows = None
             /\ partitions[i].edge_flows = None
          \/ /\ partitions[i].parent \in 1..(i - 1)
             /\ partitions[i].graph = partitions[partitions[i].parent].graph
             /\ partitions[i].flows # None
             /\ partitions[i].edge_flows # None
    /\ result.op = "merge" => result.status # TypeError
    /\ \A i \in DOMAIN partitions :
          /\ merge(heap, i, <<>>).err = NoErr
          /\ merge(heap, i, <<>>).self.parent = i

\* C15: for every child and every part, the child's node set is the parent's
\* set minus the flow's "out" plus its "in" when the part is a key of the
\* child's stored flows, and the parent's set otherwise; the child has the
\* parent's parts, and the stored flows are the flows of the delta against the
\* assignment the copy started from.
C15_FlowApplied ==
    \A i \in Children :
        LET p == partitions[i].parent
            fl == The(partitions[i].flows)
        IN /\ DOMAIN PartsOf(i) = DOMAIN PartsOf(p)
           /\ \A part \in DOMAIN PartsOf(p) :
                 IF part \in DOMAIN fl
                 THEN PartsOf(i)[part] = (PartsOf(p)[part] \ fl[part].out) \cup fl[part].in
                 ELSE PartsOf(i)[part] = PartsOf(p)[part]
           /\ fl = flows_from_changes(PartsOf(p), The(partitions[i].flips)).flows

\* C15 witness: a child with a part that both lost and gained a node, and a
\* child of a delta that moves nothing, whose parts are no keys of its flows.
C15_Witness ==
    /\ \E i \in Children : \E part \in DOMAIN The(partitions[i].flows) :
          /\ The(partitions[i].flows)[part].in # {}
          /\ The(partitions[i].flows)[part].out # {}
    /\ \E i \in Children :
          /\ The(partitions[i].flips) # <<>>
          /\ The(partitions[i].flows) = <<>>

\* The part sizes of the mapping Partition i was asked to have, and what is
\* set on a constructed instance apart from its cache.
SizesAsked(i) ==
    [part \in DOMAIN PartsOf(i) |->
        Cardinality({n \in DOMAIN mapping[i] : mapping[i][n] = part})]
FormedAtUpdate(i) ==
    /\ partitions[i].graph \in Graphs
    /\ partitions[i].assignment \in DOMAIN heap
    /\ (i \in Children) <=> (partitions[i].flows # None /\ partitions[i].edge_flows # None)
    /\ "size" \in DOMAIN partitions[i].cache => partitions[i].cache["size"] = SizesAsked(i)

\* C16: when an updater is invoked for a Partition under
\* construction, the cache already holds the value of every other registered
\* updater; the instance has its parent link, flows and edge flows, and the
\* size updater counts the nodes of the assignment after the delta.
C16_CacheHoldsAllOthers ==
    \A i \in DOMAIN partitions :
        /\ FormedAtUpdate(i)
        /\ \A name \in Registered(i) : seen[i][name] = Registered(i) \ {name}

\* C16 (amended): when an updater is invoked for a Partition under construction,
\* the instance has its graph, its assignment (after the delta for a child),
\* its parent link, flows and edge flows, and the cache holds values of other
\* registered updaters only, namely of those that returned before: of two
\* updaters at most one saw the other's value, and the first of the registry
\* saw none.
C16_CacheHoldsFinishedOnly ==
    \A i \in DOMAIN partitions :
        /\ FormedAtUpdate(i)
        /\ \A name \in Registered(i) :
              /\ calls[i][name] > 0
              /\ seen[i][name] \subseteq Registered(i) \ {name}
              /\ \A other \in seen[i][name] : name \notin seen[i][other]
        /\ partitions[i].updaters # <<>> => seen[i][partitions[i].updaters[1]] = {}

\* C16 witness: the child of the scenario {1:A, 2:A, 3:B, 4:B} under the delta
\* {2:B}, whose size updater gave {A:1, B:3} and whose second updater was
\* invoked with the value of the first in the cache.
C16_Witness ==
    \E i \in Children :
        /\ mapping[partitions[i].parent] = Scenario
        /\ The(partitions[i].flips) = (2 :> "B")
        /\ partitions[i].updaters = <<"size", "nonempty">>
        /\ partitions[i].cache["size"] = ("A" :> 1) @@ ("B" :> 3)
        /\ seen[i]["nonempty"] = {"size"}

\* The root of the chain Partition i is in.
RECURSIVE RootOf(_)
RootOf(i) == IF partitions[i].parent = 0 THEN i ELSE RootOf(partitions[i].parent)

\* C17: every Partition has the registry of the root of its chain, names and
\* functions; the registry of a root just built has the names of the class
\* default registry and of the updaters supplied, with the supplied function
\* for every supplied name and the class default's function for the others;
\* and no step changes the class default registry.
C17_RegistryInheritance ==
    /\ [](\A i \in DOMAIN partitions :
            /\ partitions[i].updaters = partitions[RootOf(i)].updaters
            /\ partitions[i].updater_fns = partitions[RootOf(i)].updater_fns)
    /\ [][\A assignment \in RootMappings, updaters \in Registries :
            (NewRoot(assignment, updaters) /\ result'.status = NoErr) =>
                /\ Registered(1)' = SeqRange(class_updaters.keys) \cup SeqRange(updaters)
                /\ \A name \in Registered(1)' :
                      partitions'[1].updater_fns[name] =
                          IF name \in SeqRange(updaters) THEN name
                          ELSE class_updaters.fn[name]]_vars
    /\ [][class_updaters' = class_updaters]_vars

\* C17 witness: a grandchild in a chain whose root was given a size updater
\* that overrides the one of the class default registry, which is still there.
C17_Witness ==
    /\ class_updaters = subclass_default_updaters
    /\ \E i \in Children :
          /\ partitions[i].parent \in Children
          /\ partitions[i].updaters = <<"size", "total">>
          /\ partitions[i].updater_fns["size"] = "size"

\* C18: along a chain the part identifiers are fixed: the keys of a
\* Partition's assignment, the identifiers in its parts and its length are
\* those of the root of its chain, a part without nodes included; no child
\* comes from a delta that names a part the root does not have, and the merge
\* of such a delta fails on every Partition.
C18_PartIdsFixed ==
    \A i \in DOMAIN partitions :
        /\ DOMAIN PartsOf(i) = DOMAIN PartsOf(RootOf(i))
        /\ partitions[i].parts = DOMAIN PartsOf(RootOf(i))
        /\ partitions[i].parts = partitions[RootOf(i)].parts
        /\ Partition_len(partitions[i]) = Partition_len(partitions[RootOf(i)])
        /\ Partition_len(partitions[i]) = Cardinality(DOMAIN PartsOf(i))
        /\ i \in Children =>
              Range(The(partitions[i].flips)) \subseteq DOMAIN PartsOf(RootOf(i))
        /\ \A part \in PartIds \ DOMAIN PartsOf(RootOf(i)) : \A n \in SeqRange(NodeOrder) :
              merge(heap, i, (n :> part)).err # NoErr

\* C18 witness: a child of length 2 with a part that has lost all its nodes,
\* on which the merge of a delta to the unknown part C fails with KeyError.
C18_Witness ==
    \E i \in Children :
        /\ \E part \in DOMAIN PartsOf(i) : PartsOf(i)[part] = {}
        /\ Partition_len(partitions[i]) = 2
        /\ merge(heap, i, (2 :> "C")).err = KeyError

====
